---- MODULE Spec2Model ----
(***************************************************************************)
(* A model of pyart.io.cfradial: the CF/Radial reader (read_cfradial), the *)
(* writer (write_cfradial) and their helpers (_stream_to_2d,               *)
(* _create_ncvar).  Arrays are functions over 0..n-1, as in the source.    *)
(***************************************************************************)
EXTENDS Integers, Sequences, FiniteSets, TLC

VARIABLES
    pc,          \* "start" before the call under study, "done" after it
    st,          \* the arguments of one _stream_to_2d call
    time_range,  \* the array _stream_to_2d returned (<<>> before the call)
    path,        \* per sweep, the branch _stream_to_2d took ("bulk" / "ray")
    dic,         \* the attributed array handed to _create_ncvar
    ncvar,       \* the variables _create_ncvar made of dic, one per write
    radar,       \* the record handed to write_cfradial
    wargs,       \* write_cfradial's time_reference and arm_time_variables
    dataset,     \* the file: the calls made on the dataset, and the error flag
    rargs,       \* read_cfradial's field_names, file_field_names, exclude_fields
    result       \* what read_cfradial returned (<<>> before the call)

streamVars == <<st, time_range, path>>
ncVars == <<dic, ncvar>>
ioVars == <<radar, wargs, dataset, rargs, result>>
vars == <<pc, st, time_range, path, dic, ncvar, radar, wargs, dataset, rargs, result>>

IdleStream == st = <<>> /\ time_range = <<>> /\ path = <<>>
IdleNcvar == dic = <<>> /\ ncvar = <<>>
IdleIO == radar = <<>> /\ wargs = <<>> /\ dataset = <<>> /\ rargs = <<>> /\ result = <<>>

\* ---------------------------------------------------------------- bounds
MaxRays == 6
MaxGates == 4
MaxSweeps == 2

\* ------------------------------------------------------------- helpers
RECURSIVE SliceSum(_, _, _)
\* numpy: a[lo:hi].sum(), an empty slice summing to 0
SliceSum(a, lo, hi) == IF hi <= lo THEN 0 ELSE a[lo] + SliceSum(a, lo + 1, hi)

RECURSIVE SortedSeq(_)
\* the elements of a finite set of integers in increasing order
SortedSeq(S) ==
    IF S = {} THEN <<>>
    ELSE LET m == CHOOSE x \in S : \A y \in S : x <= y
         IN <<m>> \o SortedSeq(S \ {m})

\* ---------------------------------------------------------- _stream_to_2d
Sentinel == -9999

\* time_range[ss:se, 0:rle] = data[cp:cp + (se - ss) * rle].reshape(se - ss, rle)
BulkCopy(tr, data, ss, se, rle, cp) ==
    [r \in DOMAIN tr |->
        [g \in DOMAIN tr[r] |->
            IF r >= ss /\ r < se /\ g < rle
            THEN data[cp + (r - ss) * rle + g]
            ELSE tr[r][g]]]

\* for rn in range(se - ss): time_range[ss + rn, 0:ray_len[ss + rn]] = data[rsi:rsi + ray_len]
RayCopy(tr, data, ss, se, ray_len, ray_start_index) ==
    [r \in DOMAIN tr |->
        [g \in DOMAIN tr[r] |->
            IF r >= ss /\ r < se /\ g < ray_len[r]
            THEN data[ray_start_index[r] + g]
            ELSE tr[r][g]]]

\* the test that selects the bulk branch for sweep k
IsBulk(a, k) ==
    LET ss == a.sweeps[k]
        se == a.sweepe[k]
        rle == a.ray_len[a.sweeps[k]]
    IN SliceSum(a.ray_len, ss, se) = rle * (se - ss)

RECURSIVE StreamLoop(_, _, _, _)
\* the loop over sweeps; tr is time_range and cp the running offset
StreamLoop(a, k, tr, cp) ==
    IF k = a.nsweeps THEN tr
    ELSE LET ss == a.sweeps[k]
             se == a.sweepe[k]
             rle == a.ray_len[a.sweeps[k]]
         IN IF IsBulk(a, k)
            THEN StreamLoop(a, k + 1, BulkCopy(tr, a.data, ss, se, rle, cp),
                            cp + (se - ss) * rle)
            ELSE StreamLoop(a, k + 1,
                            RayCopy(tr, a.data, ss, se, a.ray_len, a.ray_start_index),
                            cp + SliceSum(a.ray_len, ss, se))

StreamTo2d(a) ==
    StreamLoop(a, 0,
               [r \in 0..(a.nrays - 1) |-> [g \in 0..(a.maxgates - 1) |-> Sentinel]],
               0)

StreamPaths(a) ==
    [k \in 0..(a.nsweeps - 1) |-> IF IsBulk(a, k) THEN "bulk" ELSE "ray"]

\* The arguments read_cfradial passes for a stream file of n rays with the
\* given gate counts, whose sweeps start at ray 0 and at the rays of cuts.
StreamArgs(n, ray_len, cuts) ==
    LET starts == SortedSeq({0} \cup cuts)
        ns == Len(starts)
        rsi == [r \in 0..(n - 1) |-> SliceSum(ray_len, 0, r)]
        ngates == rsi[n - 1] + ray_len[n - 1]
    IN [nrays |-> n,
        nsweeps |-> ns,
        sweeps |-> [k \in 0..(ns - 1) |-> starts[k + 1]],
        sweepe |-> [k \in 0..(ns - 1) |->
                       IF k = ns - 1 THEN n - 1 ELSE starts[k + 2] - 1],
        ray_len |-> ray_len,
        maxgates |-> MaxGates,
        ray_start_index |-> rsi,
        data |-> [i \in 0..(ngates - 1) |-> i]]

InitStream ==
    /\ pc = "start"
    /\ \E n \in 1..MaxRays :
           \E rl \in [0..(n - 1) -> 1..MaxGates] :
               \E cuts \in { c \in SUBSET (1..(n - 1)) : Cardinality(c) < MaxSweeps } :
                   st = StreamArgs(n, rl, cuts)
    /\ time_range = <<>>
    /\ path = <<>>
    /\ IdleNcvar
    /\ IdleIO

CallStreamTo2d ==
    /\ pc = "start"
    /\ pc' = "done"
    /\ time_range' = StreamTo2d(st)
    /\ path' = StreamPaths(st)
    /\ UNCHANGED <<st, ncVars, ioVars>>

NextStream == CallStreamTo2d

SpecStream == InitStream /\ [][NextStream]_vars


\* ------------------------------------------------- dicts, arrays, strings
\* A Python dict is the sequence of its <<key, value>> items in iteration
\* order, keys distinct.  An optional member is <<>> (None) or <<value>>.
Keys(d) == { d[i][1] : i \in 1..Len(d) }
Has(d, k) == k \in Keys(d)
Lookup(d, k) == d[CHOOSE i \in 1..Len(d) : d[i][1] = k][2]
Some(x) == <<x>>
IsNone(o) == o = <<>>

\* setncattr: an attribute the variable has keeps its place, a new one is last
SetAttr(atts, k, v) ==
    IF Has(atts, k)
    THEN [i \in 1..Len(atts) |-> IF atts[i][1] = k THEN <<k, v>> ELSE atts[i]]
    ELSE Append(atts, <<k, v>>)

\* delncattr
DelAttr(atts, k) == SelectSeq(atts, LAMBDA a : a[1] # k)

\* A string is a tuple of one-character strings; the NUL character of a
\* character array is the empty string.  An array is its dtype ("S" for
\* strings and characters), its shape and its elements in row-major order.
\* the length of the longest element of v
MaxLen(v) ==
    IF v = <<>> THEN 0
    ELSE LET lens == { Len(v[i]) : i \in 1..Len(v) }
         IN CHOOSE m \in lens : \A x \in lens : x <= m

\* numpy's itemsize of a string array: the longest element, at least 1
ItemSize(a) == IF MaxLen(a.v) < 1 THEN 1 ELSE MaxLen(a.v)

RECURSIVE Flatten(_)
Flatten(rows) == IF rows = <<>> THEN <<>> ELSE Head(rows) \o Flatten(Tail(rows))

\* one string as w characters, NUL-padded
CharRow(str, w) == [j \in 1..w |-> IF j <= Len(str) THEN <<str[j]>> ELSE <<>>]

\* stringarray_to_chararray: shape s of width-w strings to shape s + (w,)
StringArrayToCharArray(a) ==
    LET w == ItemSize(a)
    IN [isarray |-> TRUE, dtype |-> "S", shape |-> a.shape \o <<w>>,
        v |-> Flatten([i \in 1..Len(a.v) |-> CharRow(a.v[i], w)])]

\* ---------------------------------------------------------- _create_ncvar
AttrSkip == {"_FillValue", "long_name", "units"}

RECURSIVE SetOthers(_, _, _)
\* for key, value in dic.iteritems(): if key not in [...]: ncvar.setncattr
SetOthers(atts, d, i) ==
    IF i > Len(d) THEN atts
    ELSE SetOthers(IF d[i][1] \in AttrSkip THEN atts
                   ELSE SetAttr(atts, d[i][1], d[i][2]), d, i + 1)

\* createVariable(..., fill_value=fill_value): the file layer gives the new
\* variable its _FillValue attribute when a fill value is passed
CreatedAtts(fill_value) ==
    IF IsNone(fill_value) THEN <<>> ELSE <<<<"_FillValue", fill_value[1]>>>>

ResetFillValue_Skipped(atts) == atts

\* remove _FillValue and replace to make it the third attribute
ResetFillValue(atts) ==
    IF Has(atts, "_FillValue")
    THEN SetAttr(DelAttr(atts, "_FillValue"), "_FillValue", Lookup(atts, "_FillValue"))
    ELSE atts

\* the attributes of the variable when _create_ncvar returns
NcvarAtts(d) ==
    LET fill_value == IF Has(d, "_FillValue") THEN Some(Lookup(d, "_FillValue")) ELSE <<>>
        a0 == CreatedAtts(fill_value)
        a1 == IF Has(d, "long_name") THEN SetAttr(a0, "long_name", Lookup(d, "long_name")) ELSE a0
        a2 == IF Has(d, "units") THEN SetAttr(a1, "units", Lookup(d, "units")) ELSE a1
    IN SetOthers(ResetFillValue(a2), d, 1)

\* the array handed to the file layer
NcvarData(data) ==
    LET arr == [data EXCEPT !.isarray = TRUE]
        chr == IF arr.dtype = "S" /\ ItemSize(arr) # 1
               THEN StringArrayToCharArray(arr) ELSE arr
    IN IF chr.shape = <<>> THEN [chr EXCEPT !.shape = <<1>>] ELSE chr

\* _create_ncvar(dic, dataset, name, dimensions): the variable it creates
CreateNcvar(d, name, dimensions) ==
    [op |-> "createVariable",
     name |-> name,
     dimensions |-> dimensions,
     dtype |-> NcvarData(d.data).dtype,
     lsd |-> IF Has(d.atts, "least_significant_digit")
             THEN Some(Lookup(d.atts, "least_significant_digit")) ELSE <<>>,
     fill_value |-> IF Has(d.atts, "_FillValue")
                    THEN Some(Lookup(d.atts, "_FillValue")) ELSE <<>>,
     atts |-> NcvarAtts(d.atts),
     data |-> NcvarData(d.data)]

\* --------------------------------------------------------- write_cfradial
Max(a, b) == IF a > b THEN a ELSE b

Arr(dtype, shape, v) == [isarray |-> TRUE, dtype |-> dtype, shape |-> shape, v |-> v]

\* len(a[0]): the first string's length, or the row width of a 2-D array
PyLen0(a) == IF Len(a.shape) >= 2 THEN a.shape[2] ELSE Len(a.v[1])

\* len(a): the extent of the first axis
PyLen(a) == a.shape[1]

InstrumentParamsDims ==
    << <<"frequency", <<"frequency">> >>,
       <<"follow_mode", <<"sweep", "string_length">> >>,
       <<"pulse_width", <<"time">> >>,
       <<"prt_mode", <<"sweep", "string_length">> >>,
       <<"prt", <<"time">> >>,
       <<"prt_ratio", <<"time">> >>,
       <<"polarization_mode", <<"sweep", "string_length">> >>,
       <<"nyquist_velocity", <<"time">> >>,
       <<"unambiguous_range", <<"time">> >>,
       <<"n_samples", <<"time">> >>,
       <<"sampling_ratio", <<"time">> >>,
       <<"radar_antenna_gain_h", <<>> >>,
       <<"radar_antenna_gain_v", <<>> >>,
       <<"radar_beam_width_h", <<>> >>,
       <<"radar_beam_width_v", <<>> >>,
       <<"radar_reciever_bandwidth", <<>> >>,
       <<"radar_measured_transmit_power_h", <<"time">> >>,
       <<"radar_measured_transmit_power_v", <<"time">> >>,
       <<"radar_rx_bandwidth", <<>> >>,
       <<"measured_transmit_power_v", <<"time">> >>,
       <<"measured_transmit_power_h", <<"time">> >> >>

Dim(name, size) == [op |-> "createDimension", name |-> name, size |-> size]
GAtt(name, value) == [op |-> "setncattr", name |-> name, value |-> value]
Close == [op |-> "close"]

StringParams == <<"follow_mode", "prt_mode", "polarization_mode">>

RECURSIVE MaxStrLen(_, _, _)
\* the loop over follow_mode, prt_mode, polarization_mode
MaxStrLen(r, i, m) ==
    IF i > Len(StringParams) THEN m
    ELSE IF ~IsNone(r.instrument_parameters)
            /\ Has(r.instrument_parameters[1], StringParams[i])
         THEN MaxStrLen(r, i + 1,
                  Max(m, PyLen0(Lookup(r.instrument_parameters[1], StringParams[i]).data)))
         ELSE MaxStrLen(r, i + 1, m)

\* str_len = max(max_str_len, 32)
StrLen(r) == Max(MaxStrLen(r, 1, PyLen0(r.sweep_mode.data)), 32)

WriteDims(r) ==
    << Dim("time", <<>>), Dim("range", <<r.ngates>>),
       Dim("sweep", <<r.nsweeps>>), Dim("string_length", <<StrLen(r)>>) >>

GlobalVariables ==
    {"volume_number", "platform_type", "instrument_type", "primary_axis",
     "time_coverage_start", "time_coverage_end", "time_reference"}

HistorySynth == "created by user on node at time using Py-ART"

\* sep.join(names): the names with sep between them, as the pieces of the string
Join(sep, names) ==
    Flatten([i \in 1..Len(names) |-> IF i = 1 THEN <<names[i]>> ELSE <<sep, names[i]>>])

WriteGlobalAtts(r) ==
    LET copy == SelectSeq(r.metadata, LAMBDA kv : kv[1] \notin GlobalVariables)
        rest == SelectSeq(copy, LAMBDA kv : kv[1] # "history")
        history == IF Has(copy, "history") THEN Lookup(copy, "history") ELSE HistorySynth
    IN [i \in 1..Len(rest) |-> GAtt(rest[i][1], rest[i][2])]
       \o (IF Has(rest, "Conventions") THEN <<>> ELSE <<GAtt("Conventions", "CF/Radial")>>)
       \o (IF Has(rest, "field_names") THEN <<>>
           ELSE <<GAtt("field_names", Join(", ", [i \in 1..Len(r.fields) |-> r.fields[i][1]]))>>)
       \o <<GAtt("history", history)>>

\* ---- dates: netCDF4.num2date and datetime.isoformat on the time units
Digits == <<"0", "1", "2", "3", "4", "5", "6", "7", "8", "9">>
TimeUnits == <<"s", "e", "c", "o", "n", "d", "s", " ", "s", "i", "n", "c", "e", " ", "1", "9", "7", "0", "-", "0", "1", "-", "0", "1", "T", "0", "0", ":", "0", "0", ":", "0", "0", "Z">>
Str_isoprefix == <<"1", "9", "7", "0", "-", "0", "1", "-", "0", "1", "T", "0", "0", ":", "0", "0", ":">>

\* num2date(t, units) as seconds after the epoch the units name
Num2Date(t, units) == t

\* isoformat() of a date within the first minute after the epoch
IsoFormat(dt) == Str_isoprefix \o <<Digits[(dt \div 10) + 1], Digits[(dt % 10) + 1]>>

\* s.replace(c, by) for a character c
Replace(s, c, by) == Flatten([i \in 1..Len(s) |-> IF s[i] = c THEN by ELSE <<s[i]>>])

\* s[-n:]
LastChars(s, n) == IF Len(s) <= n THEN s ELSE SubSeq(s, Len(s) - n + 1, Len(s))

TimeUnitsOf(r) == Lookup(r.time.atts, "units")

WriteArmTime(r, arm) ==
    IF arm
    THEN LET dt == Num2Date(r.time.data.v[1], TimeUnitsOf(r))
             base_time == [data |-> Arr("i", <<1>>, <<dt>>),
                           atts |-> << <<"string", IsoFormat(dt)>>,
                                       <<"units", "seconds since 1970-1-1 0:00:00 0:00">>,
                                       <<"ancillary_variables", "time_offset">>,
                                       <<"long_name", "Base time in Epoch">> >>]
             time_offset == [data |-> r.time.data,
                             atts |-> << <<"long_name", "Time offset from base_time">>,
                                         <<"units", Replace(Replace(TimeUnitsOf(r), "T", <<" ">>),
                                                            "Z", <<>>)>>,
                                         <<"ancillary_variables", "time_offset">>,
                                         <<"calendar", "gregorian">> >>]
         IN << CreateNcvar(base_time, "base_time", <<>>),
               CreateNcvar(time_offset, "time_offset", <<"time">>) >>
    ELSE <<>>

\* _create_ncvar of an optional member, when it is set
WriteOptional(r, name, dims) ==
    IF IsNone(r[name]) THEN <<>> ELSE <<CreateNcvar(r[name][1], name, dims)>>

WriteStandard(r) ==
    << CreateNcvar(r.time, "time", <<"time">>),
       CreateNcvar(r.range, "range", <<"range">>),
       CreateNcvar(r.azimuth, "azimuth", <<"time">>),
       CreateNcvar(r.elevation, "elevation", <<"time">>) >>
    \o WriteOptional(r, "scan_rate", <<"time">>)
    \o WriteOptional(r, "antenna_transition", <<"time">>)

WriteFields(r) ==
    [i \in 1..Len(r.fields) |-> CreateNcvar(r.fields[i][2], r.fields[i][1], <<"time", "range">>)]

WriteSweeps(r) ==
    << CreateNcvar(r.sweep_number, "sweep_number", <<"sweep">>),
       CreateNcvar(r.fixed_angle, "fixed_angle", <<"sweep">>),
       CreateNcvar(r.sweep_start_ray_index, "sweep_start_ray_index", <<"sweep">>),
       CreateNcvar(r.sweep_end_ray_index, "sweep_end_ray_index", <<"sweep">>),
       CreateNcvar(r.sweep_mode, "sweep_mode", <<"sweep", "string_length">>) >>
    \o WriteOptional(r, "target_scan_rate", <<"sweep">>)

WriteInstrumentParameters_DimensionAfter(r) ==
    IF IsNone(r.instrument_parameters) THEN <<>>
    ELSE LET ip == r.instrument_parameters[1]
         IN [i \in 1..Len(ip) |->
                  CreateNcvar(ip[i][2], ip[i][1],
                              IF Has(InstrumentParamsDims, ip[i][1])
                              THEN Lookup(InstrumentParamsDims, ip[i][1])
                              ELSE <<>>)]
            \o (IF Has(ip, "frequency")
                THEN <<Dim("frequency", <<PyLen(Lookup(ip, "frequency").data)>>)>>
                ELSE <<>>)

WriteInstrumentParameters(r) ==
    IF IsNone(r.instrument_parameters) THEN <<>>
    ELSE LET ip == r.instrument_parameters[1]
         IN (IF Has(ip, "frequency")
             THEN <<Dim("frequency", <<PyLen(Lookup(ip, "frequency").data)>>)>>
             ELSE <<>>)
            \o [i \in 1..Len(ip) |->
                  CreateNcvar(ip[i][2], ip[i][1],
                              IF Has(InstrumentParamsDims, ip[i][1])
                              THEN Lookup(InstrumentParamsDims, ip[i][1])
                              ELSE <<>>)]

CalibIndexTime == {"r_calib_index", "r_calib_time"}

CalibSizes_Unfiltered(cal) == [i \in 1..Len(cal) |-> PyLen(cal[i][2].data)]

\* [len(d['data']) for k, d in items() if k not in [...]]
CalibSizes(cal) ==
    LET others == SelectSeq(cal, LAMBDA kv : kv[1] \notin CalibIndexTime)
    IN [i \in 1..Len(others) |-> PyLen(others[i][2].data)]

\* the [0] of an empty list raises IndexError
CalibrationRaises(r) ==
    ~IsNone(r.radar_calibration) /\ CalibSizes(r.radar_calibration[1]) = <<>>

CalibDims(key) ==
    IF key = "r_calib_index" THEN <<"time">>
    ELSE IF key = "r_calib_time" THEN <<"r_calib", "string_length">>
    ELSE <<"r_calib">>

WriteCalibration(r) ==
    IF IsNone(r.radar_calibration) THEN <<>>
    ELSE LET cal == r.radar_calibration[1]
         IN <<Dim("r_calib", <<CalibSizes(cal)[1]>>)>>
            \o [i \in 1..Len(cal) |-> CreateNcvar(cal[i][2], cal[i][1], CalibDims(cal[i][1]))]

WriteLocation_PerVariable(r) ==
    LET dims(d) == IF Len(d.data.v) = 1 THEN <<>> ELSE <<"time">>
    IN << CreateNcvar(r.latitude, "latitude", dims(r.latitude)),
          CreateNcvar(r.longitude, "longitude", dims(r.longitude)),
          CreateNcvar(r.altitude, "altitude", dims(r.altitude)) >>
       \o (IF IsNone(r.altitude_agl) THEN <<>>
           ELSE <<CreateNcvar(r.altitude_agl[1], "altitude_agl", dims(r.altitude_agl[1]))>>)

\* radar.latitude['data'].size == 1 selects the dimensions of all four
WriteLocation(r) ==
    LET dims == IF Len(r.latitude.data.v) = 1 THEN <<>> ELSE <<"time">>
    IN << CreateNcvar(r.latitude, "latitude", dims),
          CreateNcvar(r.longitude, "longitude", dims),
          CreateNcvar(r.altitude, "altitude", dims) >>
       \o WriteOptional(r, "altitude_agl", dims)

WriteTimeCoverage(r) ==
    LET units == TimeUnitsOf(r)
        start_dt == Num2Date(r.time.data.v[1], units)
        end_dt == Num2Date(r.time.data.v[Len(r.time.data.v)], units)
        start_dic == [data |-> Arr("S", <<>>, <<IsoFormat(start_dt) \o <<"Z">> >>),
                      atts |-> << <<"long_name", "UTC time of first ray in the file">>,
                                  <<"units", "unitless">> >>]
        end_dic == [data |-> Arr("S", <<>>, <<IsoFormat(end_dt) \o <<"Z">> >>),
                    atts |-> << <<"long_name", "UTC time of last ray in the file">>,
                                <<"units", "unitless">> >>]
    IN << CreateNcvar(start_dic, "time_coverage_start", <<"string_length">>),
          CreateNcvar(end_dic, "time_coverage_end", <<"string_length">>) >>

\* the tri-state: None (<<>>) becomes True exactly when time[0] is nonzero
TimeReferenceWanted_FromMetadata(r, time_reference) ==
    IF IsNone(time_reference) THEN r.time.data.v[1] # 0
    ELSE time_reference[1] \/ Has(r.metadata, "time_reference")

TimeReferenceWanted(r, time_reference) ==
    IF IsNone(time_reference) THEN r.time.data.v[1] # 0 ELSE time_reference[1]

WriteTimeReference(r, time_reference) ==
    IF TimeReferenceWanted(r, time_reference)
    THEN LET ref_dic == [data |-> Arr("S", <<>>, <<LastChars(TimeUnitsOf(r), 20)>>),
                         atts |-> << <<"long_name", "UTC time reference">>,
                                     <<"units", "unitless">> >>]
         IN <<CreateNcvar(ref_dic, "time_reference", <<"string_length">>)>>
    ELSE <<>>

WriteGlobalString(r, name, long_name) ==
    IF Has(r.metadata, name)
    THEN <<CreateNcvar([data |-> Arr("S", <<>>, <<Lookup(r.metadata, name)>>),
                        atts |-> << <<"long_name", long_name>> >>],
                       name, <<"string_length">>)>>
    ELSE <<>>

WriteGlobalVariables(r) ==
    LET vol_dic == [data |-> Arr("i", <<1>>,
                                 <<IF Has(r.metadata, "volume_number")
                                   THEN Lookup(r.metadata, "volume_number") ELSE 0>>),
                    atts |-> << <<"long_name", "Volume number">>, <<"units", "unitless">> >>]
    IN <<CreateNcvar(vol_dic, "volume_number", <<>>)>>
       \o WriteGlobalString(r, "platform_type", "Platform type")
       \o WriteGlobalString(r, "instrument_type", "Instrument type")
       \o WriteGlobalString(r, "primary_axis", "Primary axis")

WriteGeoreference(r) ==
    WriteOptional(r, "rotation", <<"time">>)
    \o WriteOptional(r, "tilt", <<"time">>)
    \o WriteOptional(r, "roll", <<"time">>)
    \o WriteOptional(r, "drift", <<"time">>)
    \o WriteOptional(r, "heading", <<"time">>)
    \o WriteOptional(r, "pitch", <<"time">>)
    \o WriteOptional(r, "georefs_applied", <<"time">>)

WriteCfradial_LocationFirst(r, time_reference, arm_time_variables) ==
    LET head == WriteDims(r) \o WriteGlobalAtts(r) \o WriteArmTime(r, arm_time_variables)
                \o WriteStandard(r) \o WriteFields(r) \o WriteSweeps(r)
                \o WriteInstrumentParameters(r)
    IN IF CalibrationRaises(r)
       THEN [log |-> head, err |-> TRUE]
       ELSE [log |-> head \o WriteLocation(r) \o WriteCalibration(r)
                     \o WriteTimeCoverage(r) \o WriteTimeReference(r, time_reference)
                     \o WriteGlobalVariables(r) \o WriteGeoreference(r) \o <<Close>>,
             err |-> FALSE]

\* write_cfradial(filename, radar, time_reference, arm_time_variables): the
\* calls made on the new dataset, in order, and whether an error was raised
WriteCfradial(r, time_reference, arm_time_variables) ==
    LET head == WriteDims(r) \o WriteGlobalAtts(r) \o WriteArmTime(r, arm_time_variables)
                \o WriteStandard(r) \o WriteFields(r) \o WriteSweeps(r)
                \o WriteInstrumentParameters(r)
    IN IF CalibrationRaises(r)
       THEN [log |-> head, err |-> TRUE]
       ELSE [log |-> head \o WriteCalibration(r) \o WriteLocation(r)
                     \o WriteTimeCoverage(r) \o WriteTimeReference(r, time_reference)
                     \o WriteGlobalVariables(r) \o WriteGeoreference(r) \o <<Close>>,
             err |-> FALSE]

\* ------------------------------------------------ radar records to write
WRays == 2
WGates == 2
MaxCalib == 2

Str_azimuth_surveillance == <<"a", "z", "i", "m", "u", "t", "h", "_", "s", "u", "r", "v", "e", "i", "l", "l", "a", "n", "c", "e">>
Str_sector == <<"s", "e", "c", "t", "o", "r">>
Str_fixed == <<"f", "i", "x", "e", "d">>
Str_radar == <<"r", "a", "d", "a", "r">>
Str_axis_z == <<"a", "x", "i", "s", "_", "z">>
Str_calib_time == <<"2", "0", "1", "1", "-", "0", "5", "-", "2", "0", "T", "0", "0", ":", "0", "0", ":", "0", "0", "Z">>
Str_staggered == <<"s", "t", "a", "g", "g", "e", "r", "e", "d">>

Ramp(n, from) == [i \in 1..n |-> from + i - 1]

Vec(name, n, from, more) ==
    [data |-> Arr("f", <<n>>, Ramp(n, from)),
     atts |-> << <<"long_name", name>>, <<"units", "unit">> >> \o more]

Strings(name, strs, more) ==
    [data |-> Arr("S", <<Len(strs)>>, strs),
     atts |-> << <<"long_name", name>> >> \o more]

\* a character array of the given width, as a file read returns it
Chars(name, strs, w) ==
    [data |-> Arr("S", <<Len(strs), w>>, Flatten([i \in 1..Len(strs) |-> CharRow(strs[i], w)])),
     atts |-> << <<"long_name", name>> >>]

Field(name, n, from) ==
    [data |-> Arr("f", <<n, WGates>>, Ramp(n * WGates, from)),
     atts |-> << <<"units", "unit">>, <<"_FillValue", "-9999.0">>, <<"long_name", name>>,
                 <<"least_significant_digit", "2">> >>]

OptionalNames ==
    {"altitude_agl", "target_scan_rate", "scan_rate", "antenna_transition", "rotation",
     "tilt", "roll", "drift", "heading", "pitch", "georefs_applied"}

CalibKeys == {"r_calib_index", "r_calib_time", "r_calib_pulse_width", "r_calib_xmit_power_h"}

CalibGroup == << <<"meta_group", "radar_calibration">> >>

CalibEntry(key, n) ==
    CASE key = "r_calib_index" -> Vec(key, n, 0, CalibGroup)
      [] key = "r_calib_time" -> Strings(key, <<Str_calib_time>>, CalibGroup)
      [] key = "r_calib_pulse_width" -> Vec(key, 1, 5, CalibGroup)
      [] OTHER -> Vec(key, 2, 6, CalibGroup)

ParamKeys == {"frequency", "prt_mode", "pulse_width", "radar_beam_width_h", "lidar_power"}

ParamEntry(key, n, ns) ==
    CASE key = "frequency" -> Vec(key, 1, 9, <<>>)
      [] key = "prt_mode" -> Strings(key, [i \in 1..ns |-> Str_staggered], <<>>)
      [] key = "pulse_width" -> Vec(key, n, 1, <<>>)
      [] OTHER -> Vec(key, 1, 3, <<>>)

Metadatas ==
    << << <<"title", "t">> >>,
       << <<"history", "h">>, <<"title", "t">>, <<"time_reference", "x">>,
          <<"volume_number", 3>>, <<"platform_type", Str_fixed>>,
          <<"Conventions", "CF/Radial instrument_parameters">> >>,
       << <<"instrument_type", Str_radar>>, <<"primary_axis", Str_axis_z>>,
          <<"field_names", "DBZ">>, <<"time_reference", "x">> >> >>

SweepModes == <<Str_azimuth_surveillance, Str_sector>>

\* the record a caller hands to write_cfradial, from its parameters p
MkRadar(p) ==
    LET n == p.n
        ns == p.ns
        opt(name) == IF name \in p.opt
                     THEN Some(Vec(name, IF name = "altitude_agl" THEN p.agl
                                         ELSE IF name = "target_scan_rate" THEN ns ELSE n,
                                   1, <<>>))
                     ELSE <<>>
    IN [time |-> [data |-> Arr("f", <<n>>, Ramp(n, p.t0)),
                  atts |-> << <<"units", TimeUnits>>, <<"long_name", "time">> >>],
        range |-> Vec("range", WGates, 100, <<>>),
        fields |-> [i \in 1..Len(p.flds) |-> <<p.flds[i], Field(p.flds[i], n, 10 * i)>>],
        metadata |-> Metadatas[p.meta],
        scan_type |-> "ppi",
        latitude |-> Vec("latitude", p.lat, 36, <<>>),
        longitude |-> Vec("longitude", p.lon, 97, <<>>),
        altitude |-> Vec("altitude", p.alt, 300, <<>>),
        sweep_number |-> Vec("sweep_number", ns, 0, <<>>),
        sweep_mode |-> IF p.sm = "S" THEN Strings("sweep_mode", SubSeq(p.modes, 1, ns), <<>>)
                       ELSE Chars("sweep_mode", SubSeq(p.modes, 1, ns), 32),
        fixed_angle |-> Vec("fixed_angle", ns, 1, <<>>),
        sweep_start_ray_index |-> [data |-> Arr("i", <<ns>>, IF ns = 1 THEN <<0>> ELSE <<0, 1>>),
                                   atts |-> <<>>],
        sweep_end_ray_index |-> [data |-> Arr("i", <<ns>>,
                                              IF ns = 1 THEN <<n - 1>> ELSE <<0, n - 1>>),
                                 atts |-> <<>>],
        azimuth |-> Vec("azimuth", n, 0, <<>>),
        elevation |-> Vec("elevation", n, 1, <<>>),
        instrument_parameters |->
            IF IsNone(p.ip) THEN <<>>
            ELSE Some([i \in 1..Len(p.ip[1]) |-> <<p.ip[1][i], ParamEntry(p.ip[1][i], n, ns)>>]),
        radar_calibration |->
            IF IsNone(p.cal) THEN <<>>
            ELSE Some([i \in 1..Len(p.cal[1]) |-> <<p.cal[1][i], CalibEntry(p.cal[1][i], n)>>]),
        altitude_agl |-> opt("altitude_agl"),
        target_scan_rate |-> opt("target_scan_rate"),
        scan_rate |-> opt("scan_rate"),
        antenna_transition |-> opt("antenna_transition"),
        rotation |-> opt("rotation"),
        tilt |-> opt("tilt"),
        roll |-> opt("roll"),
        drift |-> opt("drift"),
        heading |-> opt("heading"),
        pitch |-> opt("pitch"),
        georefs_applied |-> opt("georefs_applied"),
        ngates |-> WGates,
        nsweeps |-> ns]

\* the sequences of at most n distinct elements of S
SeqsNoRep(S, n) ==
    UNION { { q \in [1..m -> S] : \A i, j \in 1..m : i # j => q[i] # q[j] } : m \in 0..n }

TriState == {<<>>, <<TRUE>>, <<FALSE>>}

BaseParams ==
    [n |-> WRays, ns |-> 1, t0 |-> 0, lat |-> 1, lon |-> 1, alt |-> 1, agl |-> 1, opt |-> {},
     cal |-> <<>>, ip |-> <<>>, meta |-> 1, flds |-> <<"DBZ">>, sm |-> "S",
     modes |-> SweepModes,
     time_reference |-> <<>>, arm_time_variables |-> FALSE]

\* stationary and moving platforms, time origin, the time_reference flag
LocationParams ==
    UNION { { [BaseParams EXCEPT !.n = n, !.lat = lat, !.lon = lon, !.alt = alt, !.agl = agl,
                                 !.opt = IF hasagl THEN {"altitude_agl"} ELSE {},
                                 !.t0 = t0, !.time_reference = tr, !.meta = meta] :
                lat \in {1, n}, lon \in {1, n}, alt \in {1, n}, agl \in {1, n},
                hasagl \in BOOLEAN, t0 \in {0, 1}, tr \in TriState,
                meta \in 1..Len(Metadatas) }
            : n \in 1..WRays }

\* one instrument parameter, or two with frequency in either position
ParamChoices ==
    { <<k>> : k \in ParamKeys }
    \cup {<<"lidar_power", "frequency">>, <<"pulse_width", "frequency">>,
          <<"frequency", "prt_mode">>}

\* calibration tables and instrument parameters
CalibrationParams ==
    { [BaseParams EXCEPT !.cal = cal, !.ip = ip, !.t0 = t0, !.time_reference = tr,
                         !.arm_time_variables = arm] :
        cal \in {<<>>} \cup { Some(q) : q \in SeqsNoRep(CalibKeys, MaxCalib) },
        ip \in {<<>>} \cup { Some(q) : q \in ParamChoices },
        t0 \in {0, 1}, tr \in TriState, arm \in BOOLEAN }

\* optional members, fields, sweep tables
OptionalParams ==
    { [BaseParams EXCEPT !.opt = opt, !.flds = flds, !.sm = sm, !.ns = ns, !.meta = meta,
                         !.arm_time_variables = arm] :
        opt \in {{}, OptionalNames} \cup { {o} : o \in OptionalNames },
        flds \in SeqsNoRep({"DBZ", "VEL"}, 2), sm \in {"S", "S1"}, ns \in 1..2,
        meta \in 1..Len(Metadatas), arm \in BOOLEAN }


\* ------------------------------------------------------ views of a file
HasVar(log, name) ==
    \E i \in 1..Len(log) : log[i].op = "createVariable" /\ log[i].name = name
VarOf(log, name) ==
    log[CHOOSE i \in 1..Len(log) : log[i].op = "createVariable" /\ log[i].name = name]
HasDim(log, name) ==
    \E i \in 1..Len(log) : log[i].op = "createDimension" /\ log[i].name = name
DimOf(log, name) ==
    log[CHOOSE i \in 1..Len(log) : log[i].op = "createDimension" /\ log[i].name = name]
Closed(log) == \E i \in 1..Len(log) : log[i].op = "close"

\* ---------------------------------------------------------- read_cfradial
Str_rhi == <<"r", "h", "i">>
Str_vertical_pointing == <<"v", "e", "r", "t", "i", "c", "a", "l", "_", "p", "o", "i", "n", "t", "i", "n", "g">>
Str_elevation_surveillance == <<"e", "l", "e", "v", "a", "t", "i", "o", "n", "_", "s", "u", "r", "v", "e", "i", "l", "l", "a", "n", "c", "e">>
Str_manual_ppi == <<"m", "a", "n", "u", "a", "l", "_", "p", "p", "i">>
Str_manual_rhi == <<"m", "a", "n", "u", "a", "l", "_", "r", "h", "i">>
Str_sur == <<"s", "u", "r">>
Str_sec == <<"s", "e", "c">>

\* sub in s, for strings
Contains(s, sub) ==
    \E i \in 1..(Len(s) - Len(sub) + 1) : SubSeq(s, i, i + Len(sub) - 1) = sub

ScanType_SectorFirst(mode) ==
    IF mode = Str_rhi THEN "rhi"
    ELSE IF mode = Str_vertical_pointing THEN "vpt"
    ELSE IF mode = Str_azimuth_surveillance THEN "ppi"
    ELSE IF mode = Str_elevation_surveillance THEN "rhi"
    ELSE IF mode = Str_manual_ppi THEN "ppi"
    ELSE IF mode = Str_manual_rhi THEN "rhi"
    ELSE IF Contains(mode, Str_sec) THEN "sector"
    ELSE IF Contains(mode, Str_sur) THEN "ppi"
    ELSE IF Contains(mode, Str_rhi) THEN "rhi"
    ELSE "other"

\* the scan_type chain on the first sweep mode
ScanType(mode) ==
    IF mode = Str_rhi THEN "rhi"
    ELSE IF mode = Str_vertical_pointing THEN "vpt"
    ELSE IF mode = Str_azimuth_surveillance THEN "ppi"
    ELSE IF mode = Str_elevation_surveillance THEN "rhi"
    ELSE IF mode = Str_manual_ppi THEN "ppi"
    ELSE IF mode = Str_manual_rhi THEN "rhi"
    ELSE IF Contains(mode, Str_sur) THEN "ppi"
    ELSE IF Contains(mode, Str_sec) THEN "sector"
    ELSE IF Contains(mode, Str_rhi) THEN "rhi"
    ELSE "other"

\* a[i] of an array of two or more axes: row i (from 0) of width shape[2]
Row(a, i) == SubSeq(a.v, i * a.shape[2] + 1, (i + 1) * a.shape[2])

\* netCDF4.chartostring of one row: the characters joined, NULs dropping out
Chartostring(row) == Flatten(row)

\* the strings an array of strings or of characters spells
StringsOf(a) ==
    IF Len(a.shape) >= 2 THEN [i \in 1..a.shape[1] |-> Chartostring(Row(a, i - 1))]
    ELSE IF ItemSize(a) = 1 THEN <<Chartostring(a.v)>>
    ELSE a.v

\* the size a dimension was declared with (<<>> for the unlimited one)
DimSize(log, name) == DimOf(log, name).size

\* ncvar[:]: the array a variable holds.  A scalar variable holds one value;
\* a character variable is as wide as its last dimension, NUL past what was
\* assigned to [..., :data.shape[-1]].
VarData(log, e) ==
    IF e.dimensions = <<>> THEN Arr(e.data.dtype, <<>>, <<e.data.v[1]>>)
    ELSE IF /\ e.data.dtype = "S"
            /\ HasDim(log, e.dimensions[Len(e.dimensions)])
            /\ DimSize(log, e.dimensions[Len(e.dimensions)]) # <<>>
            /\ DimSize(log, e.dimensions[Len(e.dimensions)])[1] > e.data.shape[Len(e.data.shape)]
    THEN LET w == e.data.shape[Len(e.data.shape)]
             W == DimSize(log, e.dimensions[Len(e.dimensions)])[1]
             rows == Len(e.data.v) \div w
         IN Arr("S", IF Len(e.dimensions) >= 2 THEN <<rows, W>> ELSE <<W>>,
                Flatten([i \in 1..rows |->
                            [j \in 1..W |-> IF j <= w THEN e.data.v[(i - 1) * w + j]
                                            ELSE <<>>]]))
    ELSE e.data

\* _ncvar_to_dict: the attributes, and the data with a scalar made 1-D
NcvarToDict(log, e) ==
    LET data == VarData(log, e)
    IN [data |-> IF data.shape = <<>> THEN [data EXCEPT !.shape = <<1>>] ELSE data,
        atts |-> e.atts]

\* FileMetadata('cfradial', ...).get_field_name(key): the mapped name, or
\* None (<<>>) for a field that is not mapped, mapped to None, or excluded
DefaultFieldMapping == <<>>

GetFieldName(args, key) ==
    LET excluded == IF IsNone(args.exclude_fields) THEN {} ELSE args.exclude_fields[1]
        mapping == IF IsNone(args.field_names) THEN DefaultFieldMapping
                   ELSE args.field_names[1]
        name == IF args.file_field_names THEN <<key>>
                ELSE IF Has(mapping, key) THEN Lookup(mapping, key)
                ELSE <<>>
    IN IF name # <<>> /\ name[1] \in excluded THEN <<>> ELSE name

FieldName_Unchecked(args, key) ==
    LET field_name == GetFieldName(args, key)
    IN IF field_name = <<>> THEN <<key>> ELSE field_name

\* the name a file variable gets in radar.fields, or <<>> when it is skipped
FieldName(args, key) ==
    LET field_name == GetFieldName(args, key)
    IN IF field_name = <<>>
       THEN IF ~IsNone(args.exclude_fields) /\ key \in args.exclude_fields[1]
            THEN <<>> ELSE <<key>>
       ELSE field_name

\* d[k] = v on a dict
DictSet(d, k, v) ==
    IF Has(d, k) THEN [i \in 1..Len(d) |-> IF d[i][1] = k THEN <<k, v>> ELSE d[i]]
    ELSE Append(d, <<k, v>>)

VarEvents(log) == SelectSeq(log, LAMBDA e : e.op = "createVariable")

ZeroBased(q) == [i \in 0..(Len(q) - 1) |-> q[i + 1]]

\* _stream_ncvar_to_dict
StreamNcvarToDict(log, e) ==
    LET a == [nrays |-> VarData(log, VarOf(log, "time")).shape[1],
              nsweeps |-> Len(VarData(log, VarOf(log, "sweep_end_ray_index")).v),
              sweeps |-> ZeroBased(VarData(log, VarOf(log, "sweep_start_ray_index")).v),
              sweepe |-> ZeroBased(VarData(log, VarOf(log, "sweep_end_ray_index")).v),
              ray_len |-> ZeroBased(VarData(log, VarOf(log, "ray_n_gates")).v),
              maxgates |-> VarData(log, VarOf(log, "range")).shape[1],
              ray_start_index |-> ZeroBased(VarData(log, VarOf(log, "ray_start_index")).v),
              data |-> ZeroBased(VarData(log, e).v)]
        grid == StreamTo2d(a)
    IN [data |-> Arr("f", <<a.nrays, a.maxgates>>,
                     Flatten([r \in 1..a.nrays |->
                                 [g \in 1..a.maxgates |-> grid[r - 1][g - 1]]])),
        atts |-> e.atts]

RECURSIVE ReadFieldLoop(_, _, _, _, _, _)
\* for key in keys: ... fields[field_name] = ...
ReadFieldLoop(log, args, keys, i, stream, fields) ==
    IF i > Len(keys) THEN fields
    ELSE LET field_name == FieldName(args, keys[i].name)
         IN ReadFieldLoop(log, args, keys, i + 1, stream,
                IF field_name = <<>> THEN fields
                ELSE DictSet(fields, field_name[1],
                             IF stream THEN StreamNcvarToDict(log, keys[i])
                             ELSE NcvarToDict(log, keys[i])))

ReadFields(log, args) ==
    IF ~HasVar(log, "ray_start_index")
    THEN ReadFieldLoop(log, args,
             SelectSeq(VarEvents(log), LAMBDA e : e.dimensions = <<"time", "range">>),
             1, FALSE, <<>>)
    ELSE LET rsi == VarData(log, VarOf(log, "ray_start_index")).v
             rng == VarData(log, VarOf(log, "ray_n_gates")).v
             ngates == rsi[Len(rsi)] + rng[Len(rng)]
         IN ReadFieldLoop(log, args,
                SelectSeq(VarEvents(log), LAMBDA e : VarData(log, e).shape = <<ngates>>),
                1, TRUE, <<>>)

ReadOptional(log, name) ==
    IF HasVar(log, name) THEN Some(NcvarToDict(log, VarOf(log, name))) ELSE <<>>

GlobalAtts(log) ==
    LET sets == SelectSeq(log, LAMBDA e : e.op = "setncattr")
    IN [i \in 1..Len(sets) |-> <<sets[i].name, sets[i].value>>]

ReadGlobalString(log, metadata, name, default) ==
    DictSet(metadata, name,
            IF HasVar(log, name) THEN Chartostring(VarData(log, VarOf(log, name)).v)
            ELSE default)

ReadMetadata(log) ==
    LET m0 == DictSet(GlobalAtts(log), "volume_number",
                      IF HasVar(log, "volume_number")
                      THEN VarData(log, VarOf(log, "volume_number")).v[1] ELSE 0)
        m1 == ReadGlobalString(log, m0, "platform_type", Str_fixed)
        m2 == ReadGlobalString(log, m1, "instrument_type", Str_radar)
    IN ReadGlobalString(log, m2, "primary_axis", Str_axis_z)

Mandatory ==
    {"time", "range", "latitude", "longitude", "altitude", "sweep_number", "sweep_mode",
     "fixed_angle", "sweep_start_ray_index", "sweep_end_ray_index", "azimuth", "elevation"}

\* _find_all_meta_group_vars
FindAllMetaGroupVars(log, meta_group_name) ==
    SelectSeq(VarEvents(log),
              LAMBDA e : Has(e.atts, "meta_group") /\ Lookup(e.atts, "meta_group") = meta_group_name)

ReadInstrumentParameters(log) ==
    LET keys == SelectSeq(InstrumentParamsDims, LAMBDA kd : HasVar(log, kd[1]))
        instrument_parameters ==
            [i \in 1..Len(keys) |-> <<keys[i][1], NcvarToDict(log, VarOf(log, keys[i][1]))>>]
    IN IF instrument_parameters = <<>> THEN <<>> ELSE Some(instrument_parameters)

ReadRadarCalibration(log) ==
    LET keys == FindAllMetaGroupVars(log, "radar_calibration")
    IN Some([i \in 1..Len(keys) |-> <<keys[i].name, NcvarToDict(log, keys[i])>>])

\* read_cfradial: a missing mandatory variable raises KeyError
ReadCfradial(log, args) ==
    IF \E name \in Mandatory : ~HasVar(log, name)
    THEN [err |-> TRUE, radar |-> <<>>]
    ELSE LET get(name) == NcvarToDict(log, VarOf(log, name))
             sweep_mode == get("sweep_mode")
             mode == Chartostring(IF Len(sweep_mode.data.shape) >= 2
                                  THEN Row(sweep_mode.data, 0)
                                  ELSE <<sweep_mode.data.v[1]>>)
         IN [err |-> FALSE,
             radar |->
               [time |-> get("time"),
                range |-> get("range"),
                fields |-> ReadFields(log, args),
                metadata |-> ReadMetadata(log),
                scan_type |-> ScanType(mode),
                latitude |-> get("latitude"),
                longitude |-> get("longitude"),
                altitude |-> get("altitude"),
                sweep_number |-> get("sweep_number"),
                sweep_mode |-> sweep_mode,
                fixed_angle |-> get("fixed_angle"),
                sweep_start_ray_index |-> get("sweep_start_ray_index"),
                sweep_end_ray_index |-> get("sweep_end_ray_index"),
                azimuth |-> get("azimuth"),
                elevation |-> get("elevation"),
                instrument_parameters |-> ReadInstrumentParameters(log),
                radar_calibration |-> ReadRadarCalibration(log),
                altitude_agl |-> ReadOptional(log, "altitude_agl"),
                target_scan_rate |-> ReadOptional(log, "target_scan_rate"),
                scan_rate |-> ReadOptional(log, "scan_rate"),
                antenna_transition |-> ReadOptional(log, "antenna_transition"),
                rotation |-> ReadOptional(log, "rotation"),
                tilt |-> ReadOptional(log, "tilt"),
                roll |-> ReadOptional(log, "roll"),
                drift |-> ReadOptional(log, "drift"),
                heading |-> ReadOptional(log, "heading"),
                pitch |-> ReadOptional(log, "pitch"),
                georefs_applied |-> ReadOptional(log, "georefs_applied"),
                ngates |-> VarData(log, VarOf(log, "range")).shape[1],
                nsweeps |-> Len(VarData(log, VarOf(log, "sweep_number")).v)]]

\* ------------------------------------------------------- the operations
DefaultReadArgs == [field_names |-> <<>>, file_field_names |-> FALSE, exclude_fields |-> <<>>]

\* write a record, then read the file back
Init ==
    /\ pc = "start"
    /\ \E p \in LocationParams \cup CalibrationParams \cup OptionalParams :
           /\ radar = MkRadar(p)
           /\ wargs = [time_reference |-> p.time_reference,
                       arm_time_variables |-> p.arm_time_variables]
    /\ dataset = <<>>
    /\ \E ffn \in BOOLEAN : rargs = [DefaultReadArgs EXCEPT !.file_field_names = ffn]
    /\ result = <<>>
    /\ IdleStream
    /\ IdleNcvar

\* one call of write_cfradial
Write ==
    /\ pc = "start"
    /\ pc' = "written"
    /\ dataset' = WriteCfradial(radar, wargs.time_reference, wargs.arm_time_variables)
    /\ UNCHANGED <<radar, wargs, rargs, result, streamVars, ncVars>>

\* one call of read_cfradial on the file
Read ==
    /\ pc = "written"
    /\ pc' = "read"
    /\ result' = ReadCfradial(dataset.log, rargs)
    /\ UNCHANGED <<radar, wargs, dataset, rargs, streamVars, ncVars>>

Next == Write \/ Read

Spec == Init /\ [][Next]_vars

\* ---- read_cfradial on files of both layouts, under every field policy
MaxTokens == 2
FieldNameList == <<"DBZ", "VEL">>
FieldNames == {"DBZ", "VEL"}
RadarNames == {"DBZ", "VEL", "REF"}

\* a stream file: the variables of a file without fields, the ray index
\* variables, and each field as one array of all stored gates
StreamFile(log, ray_len, names) ==
    LET n == Len(ray_len)
        rsi == [r \in 1..n |-> SliceSum(ZeroBased(ray_len), 0, r - 1)]
        ngates == rsi[n] + ray_len[n]
        ivar(name, v) == CreateNcvar([data |-> Arr("i", <<n>>, v), atts |-> <<>>],
                                     name, <<"time">>)
    IN log \o << Dim("n_points", <<ngates>>),
                 ivar("ray_n_gates", ray_len), ivar("ray_start_index", rsi) >>
           \o [i \in 1..Len(names) |->
                 CreateNcvar([data |-> Arr("f", <<ngates>>, Ramp(ngates, 10 * i)),
                              atts |-> << <<"long_name", names[i]>> >>],
                             names[i], <<"n_points">>)]

\* field_names: None, or a dict from file names to a radar name or None
FieldMappings ==
    {<<>>} \cup
    UNION { { Some([i \in 1..Len(SortedSeq(ks)) |-> <<FieldNameList[SortedSeq(ks)[i]], vs[i]>>]) :
                vs \in [1..Cardinality(ks) -> {<<>>} \cup { <<x>> : x \in RadarNames }] }
            : ks \in SUBSET (1..Len(FieldNameList)) }

\* gate counts of the rays of a stream file: uniform, ragged, one gate each
StreamRayLens ==
    { [r \in 1..WRays |-> WGates], [r \in 1..WRays |-> IF r = 1 THEN 1 ELSE WGates],
      [r \in 1..WRays |-> 1] }

ReadArgs ==
    [field_names : FieldMappings, file_field_names : BOOLEAN,
     exclude_fields : {<<>>} \cup { Some(x) : x \in SUBSET RadarNames }]

ModeTokens ==
    {Str_rhi, Str_vertical_pointing, Str_azimuth_surveillance, Str_elevation_surveillance,
     Str_manual_ppi, Str_manual_rhi, Str_sector, Str_sur, Str_sec,
     <<"s", "e">>, <<"c", "t", "o", "r">>, <<"i", "d", "l", "e">>, <<"u", "r", "_">>}

RECURSIVE ModesOf(_)
\* the strings of 1..n tokens
ModesOf(n) ==
    IF n = 1 THEN ModeTokens
    ELSE ModesOf(n - 1) \cup { m \o t : m \in ModesOf(n - 1), t \in ModeTokens }

InitRead ==
    /\ pc = "written"
    /\ wargs = [time_reference |-> <<>>, arm_time_variables |-> FALSE]
    /\ \/ \E flds \in SeqsNoRep(FieldNames, 2), args \in ReadArgs :
             /\ radar = MkRadar([BaseParams EXCEPT !.flds = flds])
             /\ rargs = args
             /\ dataset = WriteCfradial(radar, <<>>, FALSE)
       \/ \E flds \in SeqsNoRep(FieldNames, 2), args \in ReadArgs :
             \E ray_len \in StreamRayLens :
                 /\ radar = MkRadar([BaseParams EXCEPT !.flds = <<>>])
                 /\ rargs = args
                 /\ dataset = [log |-> StreamFile(WriteCfradial(radar, <<>>, FALSE).log,
                                                  ray_len, flds),
                               err |-> FALSE]
       \/ \E first \in ModesOf(MaxTokens), more \in {<<>>, <<Str_rhi>>, <<Str_sector>>} :
             /\ radar = MkRadar([BaseParams EXCEPT !.ns = 1 + Len(more),
                                                   !.modes = <<first>> \o more])
             /\ rargs = DefaultReadArgs
             /\ dataset = WriteCfradial(radar, <<>>, FALSE)
    /\ result = <<>>
    /\ IdleStream
    /\ IdleNcvar

NextRead == Read

SpecRead == InitRead /\ [][NextRead]_vars

\* ---- _create_ncvar on its own: any attribute dict, any iteration order
MaxAttrs == 4
AttrKeys == {"long_name", "units", "_FillValue", "least_significant_digit",
             "standard_name", "meta_group"}
AttrValue(k) ==
    CASE k = "_FillValue" -> {"-9999.0", "0"}
      [] k = "least_significant_digit" -> {"2"}
      [] OTHER -> {k}

\* the dicts with the keys of ks, in every iteration order and with every value
DictsOver(ks) ==
    { d \in [1..Cardinality(ks) -> UNION { {<<k, x>> : x \in AttrValue(k)} : k \in ks }] :
        { d[i][1] : i \in 1..Cardinality(ks) } = ks }

Str_ab == <<"a", "b">>
Str_c == <<"c">>

\* the kinds of data member: a 1-D array, a 0-d array, a list, strings
DataKinds ==
    << [isarray |-> TRUE, dtype |-> "f", shape |-> <<2>>, v |-> <<1, 2>>],
       [isarray |-> TRUE, dtype |-> "i", shape |-> <<>>, v |-> <<7>>],
       [isarray |-> FALSE, dtype |-> "f", shape |-> <<2>>, v |-> <<1, 2>>],
       [isarray |-> TRUE, dtype |-> "S", shape |-> <<2>>, v |-> <<Str_ab, Str_c>>] >>

InitNcvar ==
    /\ pc = "start"
    /\ \E ks \in { k \in SUBSET AttrKeys : Cardinality(k) <= MaxAttrs } :
           \E d \in DictsOver(ks) : \E n \in 1..Len(DataKinds) :
               dic = [data |-> DataKinds[n], atts |-> d]
    /\ ncvar = <<>>
    /\ IdleStream
    /\ IdleIO

\* one write of dic as variable "v" of a fresh file
CallCreateNcvar ==
    /\ pc \in {"start", "once"}
    /\ pc' = IF pc = "start" THEN "once" ELSE "done"
    /\ ncvar' = Append(ncvar, CreateNcvar(dic, "v", IF dic.data.shape = <<>> THEN <<>>
                                                    ELSE <<"time">>))
    /\ UNCHANGED <<dic, streamVars, ioVars>>

NextNcvar == CallCreateNcvar

SpecNcvar == InitNcvar /\ [][NextNcvar]_vars

\* ---------------------------------------------------------------- claims

\* C2: every stored gate is placed: each cell (r, g) with g < ray_len[r]
\* of the result equals data[ray_start_index[r] + g].
C2_EveryGatePlaced ==
    pc = "done" =>
        \A r \in 0..(st.nrays - 1) : \A g \in 0..(st.ray_len[r] - 1) :
            time_range[r][g] = st.data[st.ray_start_index[r] + g]

\* C3: every cell (r, g) with g >= ray_len[r] holds the sentinel.
C3_PaddedWithSentinel ==
    pc = "done" =>
        \A r \in 0..(st.nrays - 1) : \A g \in 0..(st.maxgates - 1) :
            g >= st.ray_len[r] => time_range[r][g] = Sentinel

Ragged(a, k) ==
    \E r1, r2 \in a.sweeps[k]..a.sweepe[k] : a.ray_len[r1] # a.ray_len[r2]

\* C10: a sweep whose rays differ in gate count takes the ray-by-ray path,
\* and each of its rays holds its own gates at its own width.
C10_RaggedSweepRayByRay ==
    pc = "done" =>
        \A k \in 0..(st.nsweeps - 1) :
            Ragged(st, k) =>
                /\ path[k] = "ray"
                /\ \A r \in st.sweeps[k]..st.sweepe[k] :
                       \A g \in 0..(st.maxgates - 1) :
                           time_range[r][g] =
                               IF g < st.ray_len[r]
                               THEN st.data[st.ray_start_index[r] + g]
                               ELSE Sentinel

AttrKeyAt(e, i) == e.atts[i][1]

Written == pc = "written"
Size(d) == Len(d.data.v)
ScalarOrPerRay(one) == IF one THEN <<>> ELSE <<"time">>

\* C7 as claimed: each location variable is scalar exactly when the record
\* holds one value for that variable, per-ray otherwise.
C7_EachByOwnSize ==
    (Written /\ ~dataset.err) =>
        /\ VarOf(dataset.log, "latitude").dimensions = ScalarOrPerRay(Size(radar.latitude) = 1)
        /\ VarOf(dataset.log, "longitude").dimensions = ScalarOrPerRay(Size(radar.longitude) = 1)
        /\ VarOf(dataset.log, "altitude").dimensions = ScalarOrPerRay(Size(radar.altitude) = 1)
        /\ ~IsNone(radar.altitude_agl) =>
               VarOf(dataset.log, "altitude_agl").dimensions =
                   ScalarOrPerRay(Size(radar.altitude_agl[1]) = 1)

\* C7 amended: latitude, longitude, altitude and (when set) altitude_agl are
\* all scalar when latitude holds one value and all per-ray otherwise, and
\* altitude_agl is written exactly when it is set.
C7_AllByLatitudeSize ==
    (Written /\ ~dataset.err) =>
        LET dims == ScalarOrPerRay(Size(radar.latitude) = 1)
        IN /\ VarOf(dataset.log, "latitude").dimensions = dims
           /\ VarOf(dataset.log, "longitude").dimensions = dims
           /\ VarOf(dataset.log, "altitude").dimensions = dims
           /\ HasVar(dataset.log, "altitude_agl") <=> ~IsNone(radar.altitude_agl)
           /\ ~IsNone(radar.altitude_agl) =>
                  VarOf(dataset.log, "altitude_agl").dimensions = dims

C7_Witness ==
    /\ Written /\ ~dataset.err
    /\ Size(radar.latitude) = WRays /\ WRays > 1
    /\ Size(radar.longitude) = 1
    /\ VarOf(dataset.log, "latitude").dimensions = <<"time">>
    /\ VarOf(dataset.log, "longitude").dimensions = <<"time">>

\* C8: time_reference is created only when the caller passes True, or None
\* with a nonzero first time value, and a write that returns has created it
\* in exactly that case; with False it is never created, whatever metadata
\* holds.
C8_TimeReferenceTriState ==
    Written =>
        LET wanted == \/ wargs.time_reference = <<TRUE>>
                      \/ wargs.time_reference = <<>> /\ radar.time.data.v[1] # 0
        IN /\ HasVar(dataset.log, "time_reference") => wanted
           /\ (wanted /\ ~dataset.err) => HasVar(dataset.log, "time_reference")
           /\ wargs.time_reference = <<FALSE>> => ~HasVar(dataset.log, "time_reference")

C8_Witness ==
    /\ Written /\ ~dataset.err
    /\ wargs.time_reference = <<FALSE>>
    /\ radar.time.data.v[1] # 0
    /\ Has(radar.metadata, "time_reference")
    /\ ~HasVar(dataset.log, "time_reference")
    /\ HasVar(dataset.log, "time_coverage_end")

CalibVars(log) ==
    { i \in 1..Len(log) : log[i].op = "createVariable" /\ log[i].name \in CalibKeys }

\* C9: with radar_calibration set, the write raises exactly when there is
\* no entry other than r_calib_index / r_calib_time, and then declares no
\* r_calib dimension, writes no calibration variable and does not close the
\* file; otherwise r_calib has the length of such an entry and every entry
\* is written.  With radar_calibration None there is no r_calib dimension,
\* no calibration variable and no error.
C9_CalibrationSize ==
    Written =>
        IF IsNone(radar.radar_calibration)
        THEN ~dataset.err /\ ~HasDim(dataset.log, "r_calib") /\ CalibVars(dataset.log) = {}
        ELSE LET cal == radar.radar_calibration[1]
                 others == { i \in 1..Len(cal) : cal[i][1] \notin CalibIndexTime }
             IN /\ dataset.err <=> others = {}
                /\ dataset.err =>
                       /\ ~HasDim(dataset.log, "r_calib")
                       /\ CalibVars(dataset.log) = {}
                       /\ ~Closed(dataset.log)
                /\ ~dataset.err =>
                       /\ HasDim(dataset.log, "r_calib")
                       /\ \E i \in others :
                              DimOf(dataset.log, "r_calib").size = <<PyLen(cal[i][2].data)>>
                       /\ \A i \in 1..Len(cal) : HasVar(dataset.log, cal[i][1])
                       /\ Closed(dataset.log)

C9_Witness ==
    /\ Written /\ dataset.err
    /\ ~IsNone(radar.radar_calibration)
    /\ Keys(radar.radar_calibration[1]) = CalibIndexTime
    /\ HasVar(dataset.log, "sweep_mode")
    /\ ~HasVar(dataset.log, "latitude")

ReadDone == pc = "read" /\ ~result.err
Excluded == IF IsNone(rargs.exclude_fields) THEN {} ELSE rargs.exclude_fields[1]
StreamLayout == HasVar(dataset.log, "ray_start_index")

\* C4: no name listed in exclude_fields is a key of the fields of the
\* record read_cfradial returns, in both layouts and whatever field_names
\* maps.
C4_ExcludedNeverAField ==
    ReadDone => \A name \in Excluded : ~Has(result.radar.fields, name)

C4_Witness ==
    /\ ReadDone
    /\ StreamLayout
    /\ HasVar(dataset.log, "DBZ") /\ HasVar(dataset.log, "VEL")
    /\ "DBZ" \in Excluded
    /\ ~rargs.file_field_names
    /\ ~IsNone(rargs.field_names) /\ Has(rargs.field_names[1], "DBZ")
    /\ Has(result.radar.fields, "VEL")

FirstMode == StringsOf(radar.sweep_mode.data)[1]
ScanTypes == {"ppi", "rhi", "vpt", "sector", "other"}
ConventionModes ==
    {Str_rhi, Str_vertical_pointing, Str_azimuth_surveillance, Str_elevation_surveillance,
     Str_manual_ppi, Str_manual_rhi}

\* what C5 claims of every mode apart from the strings containing 'sector'
ScanTypeCommon(m, t) ==
    /\ t \in ScanTypes
    /\ m = Str_azimuth_surveillance => t = "ppi"
    /\ m = Str_rhi => t = "rhi"
    /\ m = Str_vertical_pointing => t = "vpt"
    /\ (/\ m \notin ConventionModes
        /\ ~Contains(m, Str_sur) /\ ~Contains(m, Str_sec) /\ ~Contains(m, Str_rhi))
           => t = "other"

\* C5 as claimed: scan_type follows from the first sweep mode, and every
\* mode containing 'sector' gives sector.
C5_EverySectorString ==
    ReadDone =>
        /\ ScanTypeCommon(FirstMode, result.radar.scan_type)
        /\ Contains(FirstMode, Str_sector) => result.radar.scan_type = "sector"

\* C5 amended: scan_type follows from the first sweep mode; a mode
\* containing 'sector' gives sector unless it also contains 'sur', which
\* gives ppi.
C5_SectorUnlessSur ==
    ReadDone =>
        /\ ScanTypeCommon(FirstMode, result.radar.scan_type)
        /\ Contains(FirstMode, Str_sector) =>
               result.radar.scan_type = IF Contains(FirstMode, Str_sur) THEN "ppi" ELSE "sector"

C5_Witness ==
    /\ ReadDone
    /\ Contains(FirstMode, Str_sector) /\ Contains(FirstMode, Str_sur)
    /\ radar.nsweeps = 2
    /\ StringsOf(radar.sweep_mode.data)[2] = Str_rhi
    /\ result.radar.scan_type = "ppi"

AttributedArrays ==
    {"time", "range", "latitude", "longitude", "altitude", "sweep_number", "sweep_mode",
     "fixed_angle", "sweep_start_ray_index", "sweep_end_ray_index", "azimuth", "elevation"}

OptionalMembers == OptionalNames \cup {"instrument_parameters", "radar_calibration"}

NoOptional(r) == \A name \in OptionalMembers : IsNone(r[name])

\* equal data: the same strings, or the same shape and values
DataEq(a, b) ==
    /\ a.dtype = b.dtype
    /\ IF a.dtype = "S" THEN StringsOf(a) = StringsOf(b)
       ELSE a.shape = b.shape /\ a.v = b.v

\* a record of one platform: the location arrays hold the same number of values
OneLocationSize(r) ==
    Size(r.longitude) = Size(r.latitude) /\ Size(r.altitude) = Size(r.latitude)

\* C1: a record with no optional member set, written and read back, has
\* the same data in every attributed array and every field, and its
\* optional members are still unset.
C1_RoundTrip ==
    (pc = "read" /\ NoOptional(radar) /\ OneLocationSize(radar)) =>
        /\ ~result.err
        /\ \A name \in AttributedArrays : DataEq(result.radar[name].data, radar[name].data)
        /\ Keys(result.radar.fields) = Keys(radar.fields)
        /\ \A k \in Keys(radar.fields) :
               DataEq(Lookup(result.radar.fields, k).data, Lookup(radar.fields, k).data)
        /\ \A name \in OptionalMembers : IsNone(result.radar[name])

\* the file holds one of the catalog's instrument-parameter variables
HoldsParameter(log) == \E i \in 1..Len(InstrumentParamsDims) : HasVar(log, InstrumentParamsDims[i][1])

\* the file holds a variable tagged meta_group 'radar_calibration'
HoldsCalibration(log) == FindAllMetaGroupVars(log, "radar_calibration") # <<>>

\* None, or a mapping with at least one entry
NoneOrPopulated(o) == IsNone(o) \/ o[1] # <<>>

\* what C11 says of instrument_parameters and of the optional variables
C11_ParametersAndOptionals ==
    ReadDone =>
        /\ NoneOrPopulated(result.radar.instrument_parameters)
        /\ IsNone(result.radar.instrument_parameters) <=> ~HoldsParameter(dataset.log)
        /\ \A name \in OptionalNames : IsNone(result.radar[name]) <=> ~HasVar(dataset.log, name)

\* C11: in the record read_cfradial returns, instrument_parameters and
\* radar_calibration are each None or a non-empty mapping, None exactly
\* when the file holds no such variable, and each optional variable is None
\* exactly when the file does not hold it.
C11_NoneOrPopulated ==
    ReadDone =>
        /\ C11_ParametersAndOptionals
        /\ NoneOrPopulated(result.radar.radar_calibration)
        /\ IsNone(result.radar.radar_calibration) <=> ~HoldsCalibration(dataset.log)

\* the steps of write_cfradial, in the mandated order, with the names each
\* step declares or writes, in order; the members of an unordered step
\* (fields, instrument parameters, calibration variables) are a set
OrderedSteps ==
    << <<"time", "range", "sweep", "string_length">>,
       <<"setncattr">>,
       <<"base_time", "time_offset">>,
       <<"time", "range", "azimuth", "elevation">>,
       <<"scan_rate", "antenna_transition">>,
       <<"fields">>,
       <<"sweep_number", "fixed_angle", "sweep_start_ray_index", "sweep_end_ray_index",
         "sweep_mode", "target_scan_rate">>,
       <<"frequency", "instrument_parameters">>,
       <<"r_calib", "radar_calibration">>,
       <<"latitude", "longitude", "altitude", "altitude_agl">>,
       <<"time_coverage_start", "time_coverage_end">>,
       <<"time_reference">>,
       <<"volume_number", "platform_type", "instrument_type", "primary_axis">>,
       <<"rotation", "tilt", "roll", "drift", "heading", "pitch", "georefs_applied">>,
       <<"close">> >>

\* the places of createDimension calls: all of the first step, and the
\* first of the instrument-parameter and of the calibration step
IsDimensionPlace(pl) == pl[1] = 1 \/ (pl[1] \in {8, 9} /\ pl[2] = 1)

\* the name a call goes by in OrderedSteps
StepName(e, r) ==
    IF e.op = "close" THEN "close"
    ELSE IF e.op = "setncattr" THEN "setncattr"
    ELSE IF e.op = "createDimension" THEN e.name
    ELSE IF Has(r.fields, e.name) THEN "fields"
    ELSE IF ~IsNone(r.instrument_parameters) /\ Has(r.instrument_parameters[1], e.name)
         THEN "instrument_parameters"
    ELSE IF ~IsNone(r.radar_calibration) /\ Has(r.radar_calibration[1], e.name)
         THEN "radar_calibration"
    ELSE e.name

\* the places <<step, index>> of OrderedSteps where a call may stand
AllPlaces == UNION { { <<k, j>> : j \in 1..Len(OrderedSteps[k]) } : k \in 1..Len(OrderedSteps) }

Places(e, r) ==
    LET name == StepName(e, r)
    IN { pl \in AllPlaces :
        /\ OrderedSteps[pl[1]][pl[2]] = name
        /\ (e.op = "createDimension") <=> IsDimensionPlace(pl) }

Unordered == {"setncattr", "fields", "instrument_parameters", "radar_calibration"}

\* place a comes before place b; calls of one unordered step share a place
Before(a, b, name) ==
    \/ a[1] < b[1]
    \/ a[1] = b[1] /\ a[2] < b[2]
    \/ a = b /\ name \in Unordered

\* every call has one place, and the calls stand in the order of their places
InMandatedOrder(log, r) ==
    /\ LET places == [i \in 1..Len(log) |-> Places(log[i], r)]
       IN /\ \A i \in 1..Len(log) : Cardinality(places[i]) = 1
          /\ \A i \in 1..(Len(log) - 1) :
                 \A a \in places[i] : \A b \in places[i + 1] :
                     Before(a, b, StepName(log[i], r))
    /\ \A i \in 1..Len(log) :
           (log[i].op = "setncattr" /\ log[i].name = "history") =>
               (i = Len(log) \/ log[i + 1].op # "setncattr")

ClosedOnceAtEnd(log) ==
    /\ log # <<>>
    /\ log[Len(log)].op = "close"
    /\ \A i \in 1..(Len(log) - 1) : log[i].op # "close"

\* every step has acted: the mandatory names, and the optional ones that are
\* set or requested
StepsComplete(log, r, arm) ==
    /\ \A name \in {"time", "range", "sweep", "string_length"} : HasDim(log, name)
    /\ \E i \in 1..Len(log) : log[i].op = "setncattr" /\ log[i].name = "history"
    /\ \A name \in {"base_time", "time_offset"} : HasVar(log, name) <=> arm
    /\ \A name \in Mandatory \cup {"time_coverage_start", "time_coverage_end", "volume_number"} :
           HasVar(log, name)
    /\ \A name \in OptionalNames : HasVar(log, name) <=> ~IsNone(r[name])
    /\ \A name \in Keys(r.fields) : HasVar(log, name)
    /\ ~IsNone(r.instrument_parameters) =>
           \A name \in Keys(r.instrument_parameters[1]) : HasVar(log, name)
    /\ ~IsNone(r.radar_calibration) =>
           \A name \in Keys(r.radar_calibration[1]) : HasVar(log, name)
    /\ \A name \in {"platform_type", "instrument_type", "primary_axis"} :
           HasVar(log, name) <=> Has(r.metadata, name)

\* C12 as claimed: for every record and flag combination the calls stand in
\* the mandated order, every step has acted and the file is closed exactly
\* once, after every variable.
C12_MandatedOrder ==
    Written =>
        /\ InMandatedOrder(dataset.log, radar)
        /\ StepsComplete(dataset.log, radar, wargs.arm_time_variables)
        /\ ClosedOnceAtEnd(dataset.log)

\* C12 amended: the calls always stand in the mandated order; a write that
\* returns has performed every step and closed the file exactly once, after
\* every variable; a write that raises has not closed the file.
C12_MandatedOrderWhenReturns ==
    Written =>
        /\ InMandatedOrder(dataset.log, radar)
        /\ ~dataset.err =>
               /\ StepsComplete(dataset.log, radar, wargs.arm_time_variables)
               /\ ClosedOnceAtEnd(dataset.log)
        /\ dataset.err => ~Closed(dataset.log)

C12_Witness ==
    /\ Written /\ ~dataset.err
    /\ wargs.arm_time_variables
    /\ ~IsNone(radar.radar_calibration) /\ Len(radar.radar_calibration[1]) = MaxCalib
    /\ ~IsNone(radar.instrument_parameters) /\ Has(radar.instrument_parameters[1], "frequency")
    /\ HasVar(dataset.log, "time_reference")
    /\ ClosedOnceAtEnd(dataset.log)

\* ---- write_cfradial on records whose strings differ in length
Str_long == Str_azimuth_surveillance \o Str_vertical_pointing
Str_longer == Str_long \o Str_sector

ModeStrings == {Str_sector, Str_azimuth_surveillance, Str_long, Str_longer}

\* no string parameter, or one of the three with the given strings
StringParamChoices == {<<>>} \cup { <<k>> : k \in {"follow_mode", "prt_mode", "polarization_mode"} }

InitWrite ==
    /\ pc = "start"
    /\ \E ns \in 1..2, sm \in {"S", "S1"}, m1 \in ModeStrings, m2 \in ModeStrings,
          k \in StringParamChoices, s1 \in ModeStrings, s2 \in ModeStrings :
           LET base == MkRadar([BaseParams EXCEPT !.ns = ns, !.modes = <<m1, m2>>])
               modes == SubSeq(<<m1, m2>>, 1, ns)
               strs == SubSeq(<<s1, s2>>, 1, ns)
           IN radar = [base EXCEPT
                  !.sweep_mode = IF sm = "S" THEN Strings("sweep_mode", modes, <<>>)
                                 ELSE Chars("sweep_mode", modes, MaxLen(modes)),
                  !.instrument_parameters =
                      IF k = <<>> THEN <<>>
                      ELSE Some(<< <<k[1], Strings(k[1], strs, <<>>)>> >>)]
    /\ wargs = [time_reference |-> <<>>, arm_time_variables |-> FALSE]
    /\ dataset = <<>>
    /\ rargs = DefaultReadArgs
    /\ result = <<>>
    /\ IdleStream
    /\ IdleNcvar

NextWrite == Write

SpecWrite == InitWrite /\ [][NextWrite]_vars

\* the length an array of strings or of characters needs: its longest
\* string, or the width of its rows
Needed(a) == IF Len(a.shape) >= 2 THEN a.shape[2] ELSE MaxLen(a.v)

\* the string arrays the dimension is to hold: sweep_mode and the string
\* parameters that are present
StringArrays(r) ==
    {r.sweep_mode.data} \cup
    (IF IsNone(r.instrument_parameters) THEN {}
     ELSE { Lookup(r.instrument_parameters[1], k).data :
              k \in { x \in {"follow_mode", "prt_mode", "polarization_mode"} :
                        Has(r.instrument_parameters[1], x) } })

RECURSIVE SetMax(_)
SetMax(S) == IF S = {} THEN 0 ELSE LET x == CHOOSE x \in S : TRUE IN Max(x, SetMax(S \ {x}))

StringLength(log) == DimSize(log, "string_length")[1]

\* string_length is never below 32
StringLengthFloor == (Written /\ ~dataset.err) => StringLength(dataset.log) >= 32

\* C13: string_length is max(32, L), L the longest string over all entries
\* of sweep_mode and of the string parameters present, so it is never below
\* 32 and never shorter than a string written with it.
C13_StringLength ==
    (Written /\ ~dataset.err) =>
        /\ StringLength(dataset.log) =
               Max(32, SetMax({ Needed(a) : a \in StringArrays(radar) }))
        /\ StringLength(dataset.log) >= 32
        /\ \A i \in 1..Len(dataset.log) :
               (/\ dataset.log[i].op = "createVariable"
                /\ Len(dataset.log[i].dimensions) = 2
                /\ dataset.log[i].dimensions[2] = "string_length")
                   => dataset.log[i].data.shape[2] <= StringLength(dataset.log)

\* the dimension of that name is declared by one of the first n calls
DeclaredBy(log, name, n) ==
    \E j \in 1..n : log[j].op = "createDimension" /\ log[j].name = name

IsParameter(r, name) ==
    ~IsNone(r.instrument_parameters) /\ Has(r.instrument_parameters[1], name)

IsCalibration(r, name) ==
    ~IsNone(r.radar_calibration) /\ Has(r.radar_calibration[1], name)

\* C14: every variable is created with dimensions declared before it; the
\* four base dimensions come before any variable, frequency before any
\* instrument parameter whenever one uses it, r_calib before any calibration
\* variable; a parameter outside the catalog gets no dimensions, without error.
C14_DeclaredBeforeUse ==
    Written =>
      /\ ~CalibrationRaises(radar) => (~dataset.err /\ Closed(dataset.log))
      /\ \A i \in 1..Len(dataset.log) :
            LET e == dataset.log[i]
            IN e.op = "createVariable" =>
                /\ \A k \in 1..Len(e.dimensions) : DeclaredBy(dataset.log, e.dimensions[k], i - 1)
                /\ \A name \in {"time", "range", "sweep", "string_length"} :
                       DeclaredBy(dataset.log, name, i - 1)
                /\ (IsParameter(radar, e.name) /\ Has(radar.instrument_parameters[1], "frequency"))
                       => DeclaredBy(dataset.log, "frequency", i - 1)
                /\ IsCalibration(radar, e.name) => DeclaredBy(dataset.log, "r_calib", i - 1)
                /\ (IsParameter(radar, e.name) /\ ~Has(InstrumentParamsDims, e.name))
                       => e.dimensions = <<>>

C14_Witness ==
    /\ Written /\ ~dataset.err
    /\ ~IsNone(radar.instrument_parameters)
    /\ Len(radar.instrument_parameters[1]) = 2
    /\ radar.instrument_parameters[1][1][1] = "lidar_power"
    /\ radar.instrument_parameters[1][2][1] = "frequency"
    /\ VarOf(dataset.log, "lidar_power").dimensions = <<>>
    /\ VarOf(dataset.log, "frequency").dimensions = <<"frequency">>
    /\ ~IsNone(radar.radar_calibration)
    /\ HasVar(dataset.log, "r_calib_time")
====
